---------------------------- MODULE Spec2Model ----------------------------
(***************************************************************************)
(* A model of SceneManager (src/SceneManager.cpp): the texture registry,   *)
(* the material list, the light set-up, and the fixed PrepareScene /       *)
(* RenderScene call sequences, together with the parts of the OpenGL       *)
(* state and of the shader's uniforms that these methods write.            *)
(*                                                                         *)
(* Tags are std::string values.  The code only ever compares them for      *)
(* equality, so the tags of the textures loaded through the registry's     *)
(* interface are drawn in a canonical order from TagNames: a load uses a   *)
(* tag that is already in the table, the constructor's tag, or the first   *)
(* name of TagNames that is not yet in the table.                          *)
(***************************************************************************)
EXTENDS Integers, Sequences, FiniteSets, TLC

VARIABLES
    m_pShaderManager,   \* "valid" or "NULL": the constructor's argument
    m_textureIDs,       \* the TEXTURE_INFO cells: the array, then what follows it in memory
    m_loadedTextures,   \* int m_loadedTextures
    m_objectMaterials,  \* std::vector<OBJECT_MATERIAL>
    m_basicMeshes,      \* "object" or "NULL": the ShapeMeshes the constructor allocates
    glGenerated,        \* number of texture names glGenTextures has handed out
    glActiveUnit,       \* the active texture unit (glActiveTexture)
    glBound,            \* texture unit -> name bound to GL_TEXTURE_2D (0: none)
    shader,             \* uniform name -> value held by the shader program
    meshLoaded,         \* the Load<Shape>Mesh calls made on m_basicMeshes
    meshDrawn,          \* the Draw<Shape>Mesh calls made on m_basicMeshes
    pc,                 \* position of the caller in PrepareScene / RenderScene
    last,               \* the last call made and what it returned
    aborted,            \* the process died in an out-of-bounds or null access
    loadLog,            \* history: tag and ID of every successful CreateGLTexture call
    bindCalls           \* history: number of BindGLTextures calls made

vars == <<m_pShaderManager, m_textureIDs, m_loadedTextures, m_objectMaterials,
          m_basicMeshes, glGenerated, glActiveUnit, glBound, shader, meshLoaded, meshDrawn,
          pc, last, aborted, loadLog, bindCalls>>

texVars == <<m_textureIDs, m_loadedTextures, loadLog>>
glVars == <<glGenerated, glActiveUnit, glBound, bindCalls>>
meshVars == <<m_basicMeshes, meshLoaded, meshDrawn>>
ptrVars == <<m_pShaderManager, m_objectMaterials, shader>>

-----------------------------------------------------------------------------
(* Bounds of the model *)

\* Number of TEXTURE_INFO cells modelled: the 16 of the array and the memory
\* that follows it.  No more than MaxSlots textures are loaded.
MaxSlots == 17

\* Number of CreateGLTexture calls that load under a tag already in use or
\* that fail after glGenTextures.
MaxOddLoads == 1

-----------------------------------------------------------------------------
(* Program constants *)

\* m_textureIDs[16]: the loop bound of the constructor.
Capacity == 16

\* The tag the constructor gives every cell.
InitTag == "/0"

\* The ID the constructor gives every cell.
InitID == -1

TagNames ==
    <<"marbleFloor", "berry", "pancakeFace", "brick", "t5", "t6", "t7", "t8",
      "t9", "t10", "t11", "t12", "t13", "t14", "t15", "t16", "t17", "t18",
      "t19", "t20", "t21", "t22">>

Range(s) == {s[i] : i \in DOMAIN s}

Min(S) == CHOOSE x \in S : \A y \in S : x <= y

\* What stbi_load can hand back: no image, or an image of 1 to 4 channels.
Images ==
    {[data |-> FALSE, colorChannels |-> 0]}
        \cup {[data |-> TRUE, colorChannels |-> c] : c \in 1..4}

Slots == 0..(MaxSlots - 1)

-----------------------------------------------------------------------------
(* The shader program's uniforms (ShaderManager::set...Value) *)

\* "pointLights[" + std::to_string(i) + "].bActive"
PointLightActive(i) == "pointLights[" \o ToString(i) \o "].bActive"

LightActiveNames ==
    {"spotLight.bActive", "directionalLight.bActive"}
        \cup {PointLightActive(i) : i \in 0..3}

BoolUniforms == {"bUseLighting"} \cup LightActiveNames

Vec3Uniforms ==
    {"material.diffuseColor", "material.specularColor",
     "directionalLight.direction", "directionalLight.ambient",
     "directionalLight.diffuse", "directionalLight.specular",
     "pointLights[0].position", "pointLights[0].ambient",
     "pointLights[0].diffuse", "pointLights[0].specular"}

\* Floats are written in thousandths: 0.4f is 400.
Vec3(x, y, z) == <<x, y, z>>

\* A program's uniforms are zero until they are set.
ShaderDefaults ==
    [n \in BoolUniforms |-> FALSE]
        @@ [n \in Vec3Uniforms |-> Vec3(0, 0, 0)]
        @@ [n \in {"material.shininess", "objectTexture", "bUseTexture"} |-> 0]
        @@ [n \in {"objectColor"} |-> <<0, 0, 0, 0>>]
        @@ [n \in {"UVscale"} |-> <<0, 0>>]
        @@ [n \in {"model"} |-> <<>>]

\* The uniforms after one set...Value call.
SetValue(uniforms, name, value) == [uniforms EXCEPT ![name] = value]

-----------------------------------------------------------------------------
(* SceneManager::SceneManager *)

SceneManager(pShaderManager) ==
    /\ m_pShaderManager = pShaderManager
    /\ m_textureIDs = [i \in Slots |-> [tag |-> InitTag, ID |-> InitID]]
    /\ m_loadedTextures = 0
    /\ m_objectMaterials = <<>>
    /\ m_basicMeshes = "object"
    /\ glGenerated = 0
    /\ glActiveUnit = 0
    /\ bindCalls = 0
    /\ glBound = [u \in Slots |-> 0]
    /\ shader = ShaderDefaults
    /\ meshLoaded = {}
    /\ meshDrawn = {}
    /\ pc = [fn |-> "main", i |-> 1]
    /\ last = [op |-> "SceneManager", tag |-> "", ret |-> FALSE]
    /\ aborted = FALSE
    /\ loadLog = <<>>

-----------------------------------------------------------------------------
(* SceneManager::CreateGLTexture *)

\* Lines 128-131: the write of the next cell and the increment.  A write at an
\* index of 16 or more is outside the array: it lands in the memory behind the
\* array, or the process dies.
RegisterTexture(textureID, tag) ==
    \/ /\ m_textureIDs' =
              [m_textureIDs EXCEPT ![m_loadedTextures] = [tag |-> tag, ID |-> textureID]]
       /\ m_loadedTextures' = m_loadedTextures + 1
       /\ loadLog' = Append(loadLog, [tag |-> tag, ID |-> textureID])
       /\ aborted' = FALSE
       /\ last' = [op |-> "CreateGLTexture", tag |-> "", ret |-> TRUE]
    \/ /\ m_loadedTextures >= Capacity
       /\ aborted' = TRUE
       /\ last' = [op |-> "CreateGLTexture", tag |-> "", ret |-> FALSE]
       /\ UNCHANGED texVars

\* CreateGLTexture without the return in its else branch (line 118): an image
\* of 1 or 2 channels is registered like any other.
CreateGLTextureNoReturn(image, tag) ==
    /\ UNCHANGED <<ptrVars, meshVars>>
    /\ IF image.data
       THEN /\ glGenerated' = glGenerated + 1
            /\ UNCHANGED <<glActiveUnit, bindCalls>>
            /\ glBound' = [glBound EXCEPT ![glActiveUnit] = 0]
            /\ RegisterTexture(glGenerated + 1, tag)
       ELSE /\ last' = [op |-> "CreateGLTexture", tag |-> "", ret |-> FALSE]
            /\ UNCHANGED <<texVars, glVars, aborted>>

CreateGLTexture(image, tag) ==
    /\ UNCHANGED <<ptrVars, meshVars>>
    /\ IF image.data
       THEN LET textureID == glGenerated + 1 IN
            /\ glGenerated' = textureID
            /\ UNCHANGED <<glActiveUnit, bindCalls>>
            /\ IF image.colorChannels \in {3, 4}
               THEN /\ glBound' = [glBound EXCEPT ![glActiveUnit] = 0]
                    /\ RegisterTexture(textureID, tag)
               ELSE /\ glBound' = [glBound EXCEPT ![glActiveUnit] = textureID]
                    /\ last' = [op |-> "CreateGLTexture", tag |-> "", ret |-> FALSE]
                    /\ UNCHANGED <<texVars, aborted>>
       ELSE /\ last' = [op |-> "CreateGLTexture", tag |-> "", ret |-> FALSE]
            /\ UNCHANGED <<texVars, glVars, aborted>>

-----------------------------------------------------------------------------
(* SceneManager::FindTextureSlot *)

RECURSIVE FindTextureSlotLastFrom(_, _, _)
\* The loop without its bFound test: a later match replaces an earlier one.
FindTextureSlotLastFrom(tag, index, textureSlot) ==
    IF index < m_loadedTextures
    THEN FindTextureSlotLastFrom(tag, index + 1,
             IF m_textureIDs[index].tag = tag THEN index ELSE textureSlot)
    ELSE textureSlot

FindTextureSlotNoStop(tag, index) == FindTextureSlotLastFrom(tag, index, -1)

RECURSIVE FindTextureSlotFrom(_, _)
\* The while loop of lines 210-219, entered with the given index.
FindTextureSlotFrom(tag, index) ==
    IF index < m_loadedTextures
    THEN IF m_textureIDs[index].tag = tag
         THEN index
         ELSE FindTextureSlotFrom(tag, index + 1)
    ELSE -1

FindTextureSlot(tag) == FindTextureSlotFrom(tag, 0)

-----------------------------------------------------------------------------
(* SceneManager::BindGLTextures and SceneManager::DestroyGLTextures *)

RECURSIVE BindGLTexturesFrom(_, _)
\* The for loop of lines 150-155 from index i on: glActiveTexture(GL_TEXTURE0 + i),
\* then glBindTexture(GL_TEXTURE_2D, m_textureIDs[i].ID).
BindGLTexturesFrom(i, gl) ==
    IF i < m_loadedTextures
    THEN BindGLTexturesFrom(i + 1,
             [active |-> i, bound |-> [gl.bound EXCEPT ![i] = m_textureIDs[i].ID]])
    ELSE gl

BindGLTextures ==
    LET gl == BindGLTexturesFrom(0, [active |-> glActiveUnit, bound |-> glBound]) IN
    /\ glActiveUnit' = gl.active
    /\ bindCalls' = bindCalls + 1
    /\ glBound' = gl.bound
    /\ last' = [op |-> "BindGLTextures", tag |-> "", ret |-> FALSE]
    /\ UNCHANGED <<glGenerated, texVars, aborted, ptrVars, meshVars>>

RECURSIVE DestroyGLTexturesFrom(_, _)
\* The for loop of lines 166-169 from index i on: glGenTextures(1, &m_textureIDs[i].ID)
\* stores a newly generated name in the cell.
DestroyGLTexturesFrom(i, st) ==
    IF i < m_loadedTextures
    THEN DestroyGLTexturesFrom(i + 1,
             [generated |-> st.generated + 1,
              cells |-> [st.cells EXCEPT ![i].ID = st.generated + 1]])
    ELSE st

DestroyGLTextures ==
    LET st == DestroyGLTexturesFrom(0, [generated |-> glGenerated, cells |-> m_textureIDs]) IN
    /\ m_textureIDs' = st.cells
    /\ glGenerated' = st.generated
    /\ UNCHANGED <<m_loadedTextures, loadLog, glActiveUnit, glBound, bindCalls>>

-----------------------------------------------------------------------------
(* SceneManager::FindMaterial *)

RECURSIVE FindMaterialNoStop(_, _, _)
\* The loop without its bFound test: every match is copied out, the last one stays.
FindMaterialNoStop(tag, material, index) ==
    IF index < Len(m_objectMaterials)
    THEN FindMaterialNoStop(tag,
             IF m_objectMaterials[index + 1].tag = tag
             THEN [material EXCEPT
                      !.diffuseColor = m_objectMaterials[index + 1].diffuseColor,
                      !.specularColor = m_objectMaterials[index + 1].specularColor,
                      !.shininess = m_objectMaterials[index + 1].shininess]
             ELSE material,
             index + 1)
    ELSE material

RECURSIVE FindMaterialFrom(_, _, _)
\* The while loop of lines 239-252, entered with the given index: the value of
\* the caller's material when the loop ends.
FindMaterialFrom(tag, material, index) ==
    IF index < Len(m_objectMaterials)
    THEN IF m_objectMaterials[index + 1].tag = tag
         THEN [material EXCEPT
                  !.diffuseColor = m_objectMaterials[index + 1].diffuseColor,
                  !.specularColor = m_objectMaterials[index + 1].specularColor,
                  !.shininess = m_objectMaterials[index + 1].shininess]
         ELSE FindMaterialFrom(tag, material, index + 1)
    ELSE material

\* The return value and the caller's material after the call.
FindMaterial(tag, material) ==
    IF Len(m_objectMaterials) = 0
    THEN [ret |-> FALSE, material |-> material]
    ELSE [ret |-> TRUE, material |-> FindMaterialFrom(tag, material, 0)]

-----------------------------------------------------------------------------
(* SceneManager::SetTransformations, SetShaderColor, SetShaderTexture,
   SetTextureUVScale *)

\* setIntValue(name, bool): the bool converts to 1 or 0.
BoolToInt(b) == IF b THEN 1 ELSE 0

\* Floats are in thousandths, so a product of two of them is divided by 1000.
MulMilli(a, b) == (a * b) \div 1000

\* The 4x4 matrices, as rows of columns: Mat4Mul(a, b)[r][c] is the entry of
\* the product a * b; Mat4Apply(m, v) is m * (v.x, v.y, v.z, 1).
Mat4Entry(a, b, r, c) ==
    MulMilli(a[r][1], b[1][c]) + MulMilli(a[r][2], b[2][c])
        + MulMilli(a[r][3], b[3][c]) + MulMilli(a[r][4], b[4][c])

Mat4Row(a, b, r) ==
    <<Mat4Entry(a, b, r, 1), Mat4Entry(a, b, r, 2), Mat4Entry(a, b, r, 3),
      Mat4Entry(a, b, r, 4)>>

Mat4Mul(a, b) ==
    <<Mat4Row(a, b, 1), Mat4Row(a, b, 2), Mat4Row(a, b, 3), Mat4Row(a, b, 4)>>

Mat4ApplyRow(m, v, r) ==
    MulMilli(m[r][1], v[1]) + MulMilli(m[r][2], v[2]) + MulMilli(m[r][3], v[3]) + m[r][4]

Mat4Apply(m, v) ==
    <<Mat4ApplyRow(m, v, 1), Mat4ApplyRow(m, v, 2), Mat4ApplyRow(m, v, 3)>>

\* cos and sin of glm::radians(degrees), to the thousandth, for the angles
\* RenderScene passes: 0, 90, 180 and -6 degrees.
CosMilli(degrees) ==
    CASE degrees = 0 -> 1000
      [] degrees = 90000 -> 0
      [] degrees = 180000 -> -1000
      [] degrees = -6000 -> 995

SinMilli(degrees) ==
    CASE degrees = 0 -> 0
      [] degrees = 90000 -> 1000
      [] degrees = 180000 -> 0
      [] degrees = -6000 -> -105

\* glm::scale(v), glm::translate(v), glm::rotate(angle, axis).
GlmScale(v) ==
    <<<<v[1], 0, 0, 0>>, <<0, v[2], 0, 0>>, <<0, 0, v[3], 0>>, <<0, 0, 0, 1000>>>>

GlmTranslate(v) ==
    <<<<1000, 0, 0, v[1]>>, <<0, 1000, 0, v[2]>>, <<0, 0, 1000, v[3]>>,
      <<0, 0, 0, 1000>>>>

GlmRotateX(degrees) ==
    LET c == CosMilli(degrees)
        sn == SinMilli(degrees) IN
    <<<<1000, 0, 0, 0>>, <<0, c, -sn, 0>>, <<0, sn, c, 0>>, <<0, 0, 0, 1000>>>>

GlmRotateY(degrees) ==
    LET c == CosMilli(degrees)
        sn == SinMilli(degrees) IN
    <<<<c, 0, sn, 0>>, <<0, 1000, 0, 0>>, <<-sn, 0, c, 0>>, <<0, 0, 0, 1000>>>>

GlmRotateZ(degrees) ==
    LET c == CosMilli(degrees)
        sn == SinMilli(degrees) IN
    <<<<c, -sn, 0, 0>>, <<sn, c, 0, 0>>, <<0, 0, 1000, 0>>, <<0, 0, 0, 1000>>>>

\* The product taken the other way round: scale * rotationX * rotationY *
\* rotationZ * translation.
modelViewReversed(scaleXYZ, XrotationDegrees, YrotationDegrees, ZrotationDegrees, positionXYZ) ==
    Mat4Mul(GlmScale(scaleXYZ),
        Mat4Mul(GlmRotateX(XrotationDegrees),
            Mat4Mul(GlmRotateY(YrotationDegrees),
                Mat4Mul(GlmRotateZ(ZrotationDegrees), GlmTranslate(positionXYZ)))))

\* Line 287: modelView = translation * rotationZ * rotationY * rotationX * scale.
modelView(scaleXYZ, XrotationDegrees, YrotationDegrees, ZrotationDegrees, positionXYZ) ==
    Mat4Mul(GlmTranslate(positionXYZ),
        Mat4Mul(GlmRotateZ(ZrotationDegrees),
            Mat4Mul(GlmRotateY(YrotationDegrees),
                Mat4Mul(GlmRotateX(XrotationDegrees), GlmScale(scaleXYZ)))))

SetTransformations(scaleXYZ, XrotationDegrees, YrotationDegrees, ZrotationDegrees, positionXYZ) ==
    /\ IF m_pShaderManager # "NULL"
       THEN shader' = SetValue(shader, "model",
                         modelView(scaleXYZ, XrotationDegrees, YrotationDegrees,
                                   ZrotationDegrees, positionXYZ))
       ELSE UNCHANGED shader
    /\ last' = [op |-> "SetTransformations", tag |-> "", ret |-> FALSE,
                args |-> <<scaleXYZ, XrotationDegrees, YrotationDegrees,
                           ZrotationDegrees, positionXYZ>>]
    /\ UNCHANGED <<m_pShaderManager, m_objectMaterials, texVars, glVars, meshVars, aborted>>

SetShaderColor(redColorValue, greenColorValue, blueColorValue, alphaValue) ==
    /\ IF m_pShaderManager # "NULL"
       THEN shader' = SetValue(SetValue(shader, "bUseTexture", BoolToInt(FALSE)),
                         "objectColor",
                         <<redColorValue, greenColorValue, blueColorValue, alphaValue>>)
       ELSE UNCHANGED shader
    /\ last' = [op |-> "SetShaderColor", tag |-> "", ret |-> FALSE]
    /\ UNCHANGED <<m_pShaderManager, m_objectMaterials, texVars, glVars, meshVars, aborted>>

\* SetShaderTexture without its setSampler2DValue call (line 337).
SetShaderTextureFlagOnly(textureTag) ==
    /\ IF m_pShaderManager # "NULL"
       THEN shader' = SetValue(shader, "bUseTexture", BoolToInt(TRUE))
       ELSE UNCHANGED shader
    /\ last' = [op |-> "SetShaderTexture", tag |-> textureTag, ret |-> FALSE]
    /\ UNCHANGED <<m_pShaderManager, m_objectMaterials, texVars, glVars, meshVars, aborted>>

SetShaderTexture(textureTag) ==
    /\ IF m_pShaderManager # "NULL"
       THEN shader' = SetValue(SetValue(shader, "bUseTexture", BoolToInt(TRUE)),
                         "objectTexture", FindTextureSlot(textureTag))
       ELSE UNCHANGED shader
    /\ last' = [op |-> "SetShaderTexture", tag |-> textureTag, ret |-> FALSE]
    /\ UNCHANGED <<m_pShaderManager, m_objectMaterials, texVars, glVars, meshVars, aborted>>

SetTextureUVScale(u, v) ==
    /\ IF m_pShaderManager # "NULL"
       THEN shader' = SetValue(shader, "UVscale", <<u, v>>)
       ELSE UNCHANGED shader
    /\ last' = [op |-> "SetTextureUVScale", tag |-> "", ret |-> FALSE]
    /\ UNCHANGED <<m_pShaderManager, m_objectMaterials, texVars, glVars, meshVars, aborted>>

-----------------------------------------------------------------------------
(* SceneManager::SetShaderMaterial *)

ZeroMaterial ==
    [tag |-> "", diffuseColor |-> Vec3(0, 0, 0), specularColor |-> Vec3(0, 0, 0),
     shininess |-> 0]

\* OBJECT_MATERIAL material; (line 366) is not initialised: its tag is the empty
\* string, its colours and shininess are whatever the stack holds: zeroes, the
\* values an earlier call left there, or anything else.
IndeterminateMaterials ==
    {ZeroMaterial}
        \cup {[m_objectMaterials[k] EXCEPT !.tag = ""] : k \in DOMAIN m_objectMaterials}
        \cup {[tag |-> "", diffuseColor |-> Vec3(-1, 123456, 0),
               specularColor |-> Vec3(7, 7, 7), shininess |-> -99]}

\* Line 372 on dereferences m_pShaderManager without the NULL test the other
\* setters make.
SetShaderMaterial(materialTag) ==
    /\ last' = [op |-> "SetShaderMaterial", tag |-> materialTag, ret |-> FALSE]
    /\ UNCHANGED <<m_pShaderManager, m_objectMaterials, texVars, glVars, meshVars>>
    /\ IF Len(m_objectMaterials) > 0
       THEN \E material \in IndeterminateMaterials :
                LET found == FindMaterial(materialTag, material) IN
                IF found.ret = TRUE
                THEN IF m_pShaderManager = "NULL"
                     THEN aborted' = TRUE /\ UNCHANGED shader
                     ELSE /\ shader' =
                                SetValue(SetValue(SetValue(shader,
                                    "material.diffuseColor", found.material.diffuseColor),
                                    "material.specularColor", found.material.specularColor),
                                    "material.shininess", found.material.shininess)
                          /\ UNCHANGED aborted
                ELSE UNCHANGED <<shader, aborted>>
       ELSE UNCHANGED <<shader, aborted>>

-----------------------------------------------------------------------------
(* SceneManager::DefineObjectMaterials *)

\* Lines 395-399.
whiteMat ==
    [tag |-> "default", diffuseColor |-> Vec3(1000, 1000, 1000),
     specularColor |-> Vec3(400, 400, 400), shininess |-> 32000]

\* m_objectMaterials.push_back(material), line 401.
DefineMaterial(material) ==
    /\ m_objectMaterials' = Append(m_objectMaterials, material)
    /\ last' = [op |-> "DefineObjectMaterials", tag |-> material.tag, ret |-> FALSE]
    /\ UNCHANGED <<m_pShaderManager, shader, texVars, glVars, meshVars, aborted>>

DefineObjectMaterials == DefineMaterial(whiteMat)

-----------------------------------------------------------------------------
(* SceneManager::SetupSceneLights *)

\* The loop with the bound i < 3: pointLights[3] is left as it was.
DisablePointLightsUpTo3(i, uniforms) ==
    SetValue(SetValue(SetValue(uniforms, PointLightActive(0), FALSE),
        PointLightActive(1), FALSE), PointLightActive(2), FALSE)

RECURSIVE DisablePointLightsFrom(_, _)
\* The for loop of lines 418-419 from index i on.
DisablePointLightsFrom(i, uniforms) ==
    IF i < 4
    THEN DisablePointLightsFrom(i + 1, SetValue(uniforms, PointLightActive(i), FALSE))
    ELSE uniforms

\* The uniforms after lines 414-433, in the order of the calls.
SceneLights(uniforms) ==
    LET u1 == SetValue(uniforms, "bUseLighting", TRUE)
        u2 == SetValue(u1, "spotLight.bActive", FALSE)
        u3 == DisablePointLightsFrom(0, u2)
        u4 == SetValue(u3, "directionalLight.direction", Vec3(-300, -1000, -300))
        u5 == SetValue(u4, "directionalLight.ambient", Vec3(200, 200, 200))
        u6 == SetValue(u5, "directionalLight.diffuse", Vec3(500, 500, 500))
        u7 == SetValue(u6, "directionalLight.specular", Vec3(700, 700, 700))
        u8 == SetValue(u7, "directionalLight.bActive", TRUE)
        u9 == SetValue(u8, "pointLights[0].position", Vec3(0, 5000, 1000))
        u10 == SetValue(u9, "pointLights[0].ambient", Vec3(100, 90, 80))
        u11 == SetValue(u10, "pointLights[0].diffuse", Vec3(600, 500, 400))
        u12 == SetValue(u11, "pointLights[0].specular", Vec3(400, 300, 200))
    IN  SetValue(u12, "pointLights[0].bActive", TRUE)

\* Every call goes through m_pShaderManager, which is not tested for NULL.
SetupSceneLights ==
    /\ last' = [op |-> "SetupSceneLights", tag |-> "", ret |-> FALSE]
    /\ UNCHANGED <<m_pShaderManager, m_objectMaterials, texVars, glVars, meshVars>>
    /\ IF m_pShaderManager = "NULL"
       THEN aborted' = TRUE /\ UNCHANGED shader
       ELSE shader' = SceneLights(shader) /\ UNCHANGED aborted

-----------------------------------------------------------------------------
(* m_basicMeshes->Load<Shape>Mesh() and m_basicMeshes->Draw<Shape>Mesh() *)

LoadMesh(shape) ==
    /\ meshLoaded' = meshLoaded \cup {shape}
    /\ last' = [op |-> "LoadMesh", tag |-> shape, ret |-> FALSE]
    /\ UNCHANGED <<m_basicMeshes, meshDrawn, ptrVars, texVars, glVars, aborted>>

DrawMesh(shape) ==
    /\ meshDrawn' = meshDrawn \cup {shape}
    /\ last' = [op |-> "DrawMesh", tag |-> shape, ret |-> FALSE]
    /\ UNCHANGED <<m_basicMeshes, meshLoaded, ptrVars, texVars, glVars, aborted>>

-----------------------------------------------------------------------------
(* SceneManager::~SceneManager *)

Destructor ==
    /\ m_pShaderManager' = "NULL"
    /\ m_basicMeshes' = "NULL"
    /\ DestroyGLTextures
    /\ last' = [op |-> "~SceneManager", tag |-> "", ret |-> FALSE]
    /\ UNCHANGED <<m_objectMaterials, shader, meshLoaded, meshDrawn, aborted>>

-----------------------------------------------------------------------------
(* The statements of PrepareScene and RenderScene *)

Stmt(op, tag, args) == [op |-> op, tag |-> tag, args |-> args]

Tf(scale, rx, ry, rz, position) ==
    Stmt("SetTransformations", "", <<scale, rx, ry, rz, position>>)
Tex(tag) == Stmt("SetShaderTexture", tag, <<>>)
UV(u, v) == Stmt("SetTextureUVScale", "", <<u, v>>)
Col(r, g, b, a) == Stmt("SetShaderColor", "", <<r, g, b, a>>)
Mat(tag) == Stmt("SetShaderMaterial", tag, <<>>)
Draw(shape) == Stmt("DrawMesh", shape, <<>>)
Load(shape) == Stmt("LoadMesh", shape, <<>>)

\* LoadSceneTextures with its BindGLTextures call moved before the last load.
LoadSceneTexturesBodyBindEarly ==
    <<Stmt("CreateGLTexture", "marbleFloor", <<"textures/marble.png">>),
      Stmt("CreateGLTexture", "berry", <<"textures/berry.jpg">>),
      Stmt("CreateGLTexture", "pancakeFace", <<"textures/pancake_face.jpg">>),
      Stmt("BindGLTextures", "", <<>>),
      Stmt("CreateGLTexture", "brick", <<"textures/brickWall.png">>)>>

\* Lines 451-468.
LoadSceneTexturesBody ==
    <<Stmt("CreateGLTexture", "marbleFloor", <<"textures/marble.png">>),
      Stmt("CreateGLTexture", "berry", <<"textures/berry.jpg">>),
      Stmt("CreateGLTexture", "pancakeFace", <<"textures/pancake_face.jpg">>),
      Stmt("CreateGLTexture", "brick", <<"textures/brickWall.png">>),
      Stmt("BindGLTextures", "", <<>>)>>

\* PrepareScene without its LoadCylinderMesh call.
PrepareSceneBodyNoCylinder ==
    LoadSceneTexturesBody
        \o <<Stmt("DefineObjectMaterials", "", <<>>),
             Stmt("SetupSceneLights", "", <<>>),
             Load("Plane"), Load("Cone"), Load("Prism"),
             Load("Torus"), Load("Sphere"), Load("TaperedCylinder"), Load("Pyramid3")>>

\* Lines 483-500.
PrepareSceneBody ==
    LoadSceneTexturesBody
        \o <<Stmt("DefineObjectMaterials", "", <<>>),
             Stmt("SetupSceneLights", "", <<>>),
             Load("Plane"), Load("Cone"), Load("Cylinder"), Load("Prism"),
             Load("Torus"), Load("Sphere"), Load("TaperedCylinder"), Load("Pyramid3")>>

\* Lines 596-628: one pass of the pancake loop; yHeight = 0.3f + (i * 0.35f).
Pancake(i) ==
    LET yHeight == 300 + (i * 350) IN
    <<Tf(Vec3(5000, 300, 5000), 0, 0, 0, Vec3(0, yHeight, 0)),
      Tex("pancakeFace"), UV(1000, 1000), Mat("default"), Draw("Cylinder"),
      Tf(Vec3(4400, 4400, 900), 90000, 0, 0, Vec3(0, yHeight, 0)),
      Tex("pancakeFace"), Mat("default"), UV(1000, yHeight), Draw("Torus")>>

RECURSIVE PancakesFrom(_)
\* for (int i = 0; i < 6; ++i), line 595.
PancakesFrom(i) == IF i < 6 THEN Pancake(i) \o PancakesFrom(i + 1) ELSE <<>>

\* Lines 524-713.
RenderSceneBody ==
    <<Tf(Vec3(20000, 1000, 10000), 0, 0, 0, Vec3(0, 0, 0)),
      Tex("marbleFloor"), UV(5000, 5000), Mat("default"), Draw("Plane"),
      Tf(Vec3(20000, 1000, 10000), 90000, 0, 0, Vec3(0, 5000, -8000)),
      Tex("brick"), UV(2000, 2000), Mat("default"), Draw("Plane"),
      Tf(Vec3(7000, 200, 7000), 0, 0, 0, Vec3(0, 100, 0)),
      Col(900, 900, 900, 1000), Mat("default"), Draw("TaperedCylinder")>>
        \o PancakesFrom(0)
        \o <<Tf(Vec3(1200, 2800, 1200), 180000, 0, 0, Vec3(8000, 3000, 0)),
             Col(1000, 650, 0, 1000), Mat("default"), Draw("TaperedCylinder"),
             Tf(Vec3(1400, 3000, 1400), 180000, 0, 0, Vec3(8000, 3250, 0)),
             Col(900, 900, 1000, 200), Mat("glass"), Draw("TaperedCylinder"),
             Col(900, 900, 1000, 200), Mat("glass"),
             Tf(Vec3(900, 300, 900), 0, 0, 180000, Vec3(6000, 900, -1800)),
             Draw("HalfSphere"),
             Tf(Vec3(900, 4000, 900), 0, 0, 0, Vec3(6000, 900, -1800)),
             Draw("Cylinder"),
             Tf(Vec3(905, 900, 905), 0, -6000, 0, Vec3(6000, 4900, -1800)),
             Draw("HalfSphere"),
             Tf(Vec3(300, 2000, 300), 0, 0, 0, Vec3(6000, 5600, -1800)),
             Draw("Cylinder"),
             Tf(Vec3(320, 320, 1500), 90000, 0, 0, Vec3(6000, 7400, -1800)),
             Draw("Torus"),
             Tf(Vec3(280, 280, 400), 90000, 0, 0, Vec3(6000, 7600, -1800)),
             Draw("Torus"),
             Col(350, 150, 50, 1000), Mat("default"),
             Tf(Vec3(910, 2700, 910), 0, 0, 180000, Vec3(6000, 2900, -1800)),
             Draw("Cylinder")>>

\* One statement of either body.
Exec(stmt) ==
    \/ /\ stmt.op = "CreateGLTexture"
       /\ \E image \in Images : CreateGLTexture(image, stmt.tag)
    \/ /\ stmt.op = "BindGLTextures"
       /\ BindGLTextures
    \/ /\ stmt.op = "DefineObjectMaterials"
       /\ DefineObjectMaterials
    \/ /\ stmt.op = "SetupSceneLights"
       /\ SetupSceneLights
    \/ /\ stmt.op = "LoadMesh"
       /\ LoadMesh(stmt.tag)
    \/ /\ stmt.op = "SetTransformations"
       /\ SetTransformations(stmt.args[1], stmt.args[2], stmt.args[3], stmt.args[4],
                             stmt.args[5])
    \/ /\ stmt.op = "SetShaderTexture"
       /\ SetShaderTexture(stmt.tag)
    \/ /\ stmt.op = "SetTextureUVScale"
       /\ SetTextureUVScale(stmt.args[1], stmt.args[2])
    \/ /\ stmt.op = "SetShaderColor"
       /\ SetShaderColor(stmt.args[1], stmt.args[2], stmt.args[3], stmt.args[4])
    \/ /\ stmt.op = "SetShaderMaterial"
       /\ SetShaderMaterial(stmt.tag)
    \/ /\ stmt.op = "DrawMesh"
       /\ DrawMesh(stmt.tag)

-----------------------------------------------------------------------------
(* The program: the constructor, PrepareScene once, RenderScene once per
   frame until the window closes, the destructor *)

MainPrepare ==
    /\ ~aborted
    /\ pc.fn = "main"
    /\ pc' = [fn |-> "PrepareScene", i |-> 1]
    /\ UNCHANGED <<ptrVars, texVars, glVars, meshVars, last, aborted>>

PrepareStep ==
    /\ ~aborted
    /\ pc.fn = "PrepareScene"
    /\ Exec(PrepareSceneBody[pc.i])
    /\ pc' = IF pc.i < Len(PrepareSceneBody)
             THEN [pc EXCEPT !.i = pc.i + 1]
             ELSE [fn |-> "frames", i |-> 1]

MainRender ==
    /\ ~aborted
    /\ pc.fn = "frames"
    /\ pc' = [fn |-> "RenderScene", i |-> 1]
    /\ UNCHANGED <<ptrVars, texVars, glVars, meshVars, last, aborted>>

RenderStep ==
    /\ ~aborted
    /\ pc.fn = "RenderScene"
    /\ Exec(RenderSceneBody[pc.i])
    /\ pc' = IF pc.i < Len(RenderSceneBody)
             THEN [pc EXCEPT !.i = pc.i + 1]
             ELSE [fn |-> "frames", i |-> 1]

MainExit ==
    /\ ~aborted
    /\ pc.fn = "frames"
    /\ Destructor
    /\ pc' = [fn |-> "exit", i |-> 1]

Init == \E pShaderManager \in {"valid", "NULL"} : SceneManager(pShaderManager)

Next == MainPrepare \/ PrepareStep \/ MainRender \/ RenderStep \/ MainExit

Spec == Init /\ [][Next]_vars

-----------------------------------------------------------------------------
(* The memory behind the array *)

LoadedTags == {loadLog[k].tag : k \in DOMAIN loadLog}

FreshTag == TagNames[Cardinality(LoadedTags \ {InitTag}) + 1]

\* The cells past the array's end belong to whatever follows m_textureIDs in
\* the object.  Once CreateGLTexture has written one, its owner may overwrite it
\* with bytes that no longer read as the tag and the ID that were stored.
ForeignWrite(i) ==
    /\ i >= Capacity
    /\ i < m_loadedTextures
    /\ m_textureIDs[i] # [tag |-> InitTag, ID |-> InitID]
    /\ m_textureIDs' = [m_textureIDs EXCEPT ![i] = [tag |-> InitTag, ID |-> InitID]]
    /\ last' = [op |-> "(foreign write)", tag |-> "", ret |-> FALSE]
    /\ UNCHANGED <<m_loadedTextures, loadLog, glVars, aborted, ptrVars, meshVars>>

-----------------------------------------------------------------------------
(* The texture registry driven through its interface *)

UsedTags == LoadedTags \cup {InitTag}

DupLoads == Len(loadLog) - Cardinality(LoadedTags \ {InitTag})

FailedLoads == glGenerated - Len(loadLog)

\* A load that fails never reads its tag: it is given the name not yet in use.
TexLoad ==
    \E image \in Images :
        \E tag \in IF image.data /\ image.colorChannels \in {3, 4}
                    THEN UsedTags \cup {FreshTag}
                    ELSE {FreshTag} :
            /\ ~aborted
            /\ m_loadedTextures < MaxSlots
            /\ (image.data /\ image.colorChannels \in {3, 4} /\ tag \in UsedTags)
                   => DupLoads + FailedLoads < MaxOddLoads
            /\ (image.data /\ image.colorChannels \notin {3, 4})
                   => DupLoads + FailedLoads < MaxOddLoads
            /\ CreateGLTexture(image, tag)
            /\ UNCHANGED pc

\* The tags looked up: the constructor's, one never loaded, the last one loaded.
QueryTags ==
    {InitTag, FreshTag}
        \cup (IF loadLog = <<>> THEN {} ELSE {loadLog[Len(loadLog)].tag})

TexFind ==
    \E tag \in QueryTags :
        /\ ~aborted
        /\ last' = [op |-> "FindTextureSlot", tag |-> tag, ret |-> FindTextureSlot(tag)]
        /\ UNCHANGED <<texVars, glVars, aborted, ptrVars, meshVars, pc>>

TexForeign ==
    \E i \in Slots :
        /\ ~aborted
        /\ ForeignWrite(i)
        /\ UNCHANGED pc

NextTextures == TexLoad \/ TexFind \/ TexForeign

SpecTextures == SceneManager("valid") /\ [][NextTextures]_vars

-----------------------------------------------------------------------------
(* The material list driven through its interface *)

\* Number of materials defined.
MaxMaterials == 3

\* The materials that are defined: the scene's, a second one under its tag,
\* and one under another tag.
MaterialPalette ==
    {whiteMat,
     [tag |-> "default", diffuseColor |-> Vec3(200, 200, 200),
      specularColor |-> Vec3(900, 900, 900), shininess |-> 8000],
     [tag |-> "glass", diffuseColor |-> Vec3(400, 400, 500),
      specularColor |-> Vec3(1000, 1000, 1000), shininess |-> 96000]}

\* The tags looked up: two of the palette and one that is never defined.
MaterialTags == {"default", "glass", "wood"}

\* The material object a caller of FindMaterial passes in.
CallerMaterials ==
    {ZeroMaterial,
     [tag |-> "mine", diffuseColor |-> Vec3(100, 200, 300),
      specularColor |-> Vec3(300, 200, 100), shininess |-> 1000]}

MatDefine ==
    \E material \in MaterialPalette :
        /\ ~aborted
        /\ Len(m_objectMaterials) < MaxMaterials
        /\ DefineMaterial(material)
        /\ UNCHANGED pc

MatFind ==
    \E tag \in MaterialTags, material \in CallerMaterials :
        /\ ~aborted
        /\ last' = [op |-> "FindMaterial", tag |-> tag,
                    ret |-> FindMaterial(tag, material).ret,
                    arg |-> material,
                    out |-> FindMaterial(tag, material).material]
        /\ UNCHANGED <<ptrVars, texVars, glVars, meshVars, aborted, pc>>

MatSet ==
    \E tag \in MaterialTags :
        /\ ~aborted
        /\ SetShaderMaterial(tag)
        /\ UNCHANGED pc

NextMaterials == MatDefine \/ MatFind \/ MatSet

SpecMaterials == Init /\ [][NextMaterials]_vars

-----------------------------------------------------------------------------
(* The light set-up called in any state of the shader's light uniforms *)

\* Another user of the ShaderManager switches a light on or off.
ShaderSetBool(name, value) ==
    /\ shader[name] # value
    /\ shader' = SetValue(shader, name, value)
    /\ last' = [op |-> "setBoolValue", tag |-> name, ret |-> FALSE]
    /\ UNCHANGED <<m_pShaderManager, m_objectMaterials, texVars, glVars, meshVars, aborted>>

LightsSetBool ==
    \E name \in LightActiveNames, value \in BOOLEAN :
        /\ ~aborted
        /\ ShaderSetBool(name, value)
        /\ UNCHANGED pc

LightsSetup ==
    /\ ~aborted
    /\ SetupSceneLights
    /\ UNCHANGED pc

NextLights == LightsSetBool \/ LightsSetup

SpecLights == Init /\ [][NextLights]_vars

-----------------------------------------------------------------------------
(* Claims about the texture registry *)

\* The populated cells that hold the tag.
SlotsTagged(tag) == {i \in 0..(m_loadedTextures - 1) : m_textureIDs[i].tag = tag}

LoadsDistinct ==
    \A j, k \in DOMAIN loadLog : loadLog[j].tag = loadLog[k].tag => j = k

\* C1: after n successful CreateGLTexture calls with pairwise distinct tags on
\* a fresh registry, m_loadedTextures is n and FindTextureSlot of the k-th
\* tag loaded is k - 1.
C1_InsertionOrder ==
    (~aborted /\ LoadsDistinct) =>
        /\ m_loadedTextures = Len(loadLog)
        /\ \A k \in DOMAIN loadLog : FindTextureSlot(loadLog[k].tag) = k - 1

\* C2: m_loadedTextures never exceeds the capacity of 16, so no load writes a
\* cell outside 0..15.
C2_WithinCapacity == m_loadedTextures <= Capacity

\* The value the claim gives FindTextureSlot(tag).
LowestSlot(tag) == IF SlotsTagged(tag) = {} THEN -1 ELSE Min(SlotsTagged(tag))

C3_FindLowest ==
    /\ \A tag \in UsedTags \cup {FreshTag} : FindTextureSlot(tag) = LowestSlot(tag)
    /\ last.op = "FindTextureSlot" => last.ret = LowestSlot(last.tag)

C3_LoadKeepsSlots ==
    m_loadedTextures' # m_loadedTextures =>
        \A i \in 0..(m_loadedTextures - 1) : m_textureIDs'[i] = m_textureIDs[i]

\* C3: FindTextureSlot(tag) is the lowest index below m_loadedTextures whose
\* cell holds the tag, and -1 when there is none; a load, also one under a tag
\* already in use, leaves the tag and ID of every populated cell as they were.
C3_FirstMatch == [](C3_FindLowest) /\ [][C3_LoadKeepsSlots]_vars

\* A lookup of a tag held by two populated cells has returned the lower one.
C3_Witness ==
    /\ last.op = "FindTextureSlot"
    /\ Cardinality(SlotsTagged(last.tag)) >= 2
    /\ last.ret = Min(SlotsTagged(last.tag))
    /\ \E i \in SlotsTagged(last.tag) : i > last.ret

ImageFails(image) == ~image.data \/ image.colorChannels \notin {3, 4}

C4_Step ==
    \A image \in Images, tag \in UsedTags \cup {FreshTag} :
        (ImageFails(image) /\ CreateGLTexture(image, tag)) =>
            /\ last'.ret = FALSE
            /\ m_loadedTextures' = m_loadedTextures
            /\ m_textureIDs' = m_textureIDs

\* C4: a CreateGLTexture call whose image cannot be decoded, or has neither 3
\* nor 4 channels, returns false and leaves m_loadedTextures and every cell's
\* tag and ID as they were.
C4_FailedLoadKeepsRegistry == [][C4_Step]_vars

\* A load has failed on a registry that holds textures.
C4_Witness ==
    /\ last.op = "CreateGLTexture"
    /\ last.ret = FALSE
    /\ ~aborted
    /\ m_loadedTextures >= 2
    /\ glGenerated > Len(loadLog)

\* The texture objects the GL holds: every name glGenTextures has handed out,
\* as no method calls glDeleteTextures.
GlLiveTextures == 1..glGenerated

\* C5: after DestroyGLTextures (the destructor's release) the GL texture of
\* every slot that was populated is released and m_loadedTextures is zero.
C5_ReleaseEmpties ==
    last.op = "~SceneManager" =>
        /\ m_loadedTextures = 0
        /\ \A k \in DOMAIN loadLog : loadLog[k].ID \notin GlLiveTextures

-----------------------------------------------------------------------------
(* Claims about the material list *)

MaterialDefined(tag) == \E k \in DOMAIN m_objectMaterials : m_objectMaterials[k].tag = tag

\* C6: FindMaterial returns false whenever no defined material has the tag, on
\* an empty and on a non-empty list, and leaves the caller's material as it was.
C6_LookupMiss ==
    (last.op = "FindMaterial" /\ ~MaterialDefined(last.tag)) =>
        /\ last.ret = FALSE
        /\ last.out = last.arg

MaterialUniforms ==
    <<shader["material.diffuseColor"], shader["material.specularColor"],
      shader["material.shininess"]>>

C7_Step ==
    (/\ pc.fn = "RenderScene"
     /\ RenderSceneBody[pc.i].op = "SetShaderMaterial"
     /\ ~MaterialDefined(RenderSceneBody[pc.i].tag)) =>
        /\ MaterialUniforms' = MaterialUniforms
        /\ ~aborted'

\* C7: SetShaderMaterial with a tag that was never defined (RenderScene's
\* "glass") sets no material uniform: diffuse colour, specular colour and
\* shininess stay those of the material bound before, and the sequence goes on.
C7_MissKeepsMaterial == [][C7_Step]_vars

\* The first record defined under the tag.
FirstDefined(tag) ==
    m_objectMaterials[Min({k \in DOMAIN m_objectMaterials : m_objectMaterials[k].tag = tag})]

\* C8: with several materials defined under one tag, FindMaterial returns true
\* and copies out diffuse colour, specular colour and shininess of the first
\* one defined; a later record under the tag is never returned.
C8_FirstDefinedWins ==
    (last.op = "FindMaterial" /\ MaterialDefined(last.tag)) =>
        /\ last.ret = TRUE
        /\ last.out.diffuseColor = FirstDefined(last.tag).diffuseColor
        /\ last.out.specularColor = FirstDefined(last.tag).specularColor
        /\ last.out.shininess = FirstDefined(last.tag).shininess

\* A lookup of a tag defined twice with different values has returned the first.
C8_Witness ==
    /\ last.op = "FindMaterial"
    /\ \E j, k \in DOMAIN m_objectMaterials :
           /\ j < k
           /\ m_objectMaterials[j].tag = last.tag
           /\ m_objectMaterials[k].tag = last.tag
           /\ m_objectMaterials[j].diffuseColor # m_objectMaterials[k].diffuseColor
           /\ \A h \in 1..(j - 1) : m_objectMaterials[h].tag # last.tag
           /\ last.out.diffuseColor = m_objectMaterials[j].diffuseColor

-----------------------------------------------------------------------------
(* Claims about the lights *)

AfterSetupSceneLights == last.op = "SetupSceneLights" /\ ~aborted

\* C9 as stated: after SetupSceneLights all four point lights and the spot
\* light are inactive and the directional light is active.
C9_AllPointLightsOff ==
    AfterSetupSceneLights =>
        /\ \A i \in 0..3 : shader[PointLightActive(i)] = FALSE
        /\ shader["spotLight.bActive"] = FALSE
        /\ shader["directionalLight.bActive"] = TRUE

\* C9, amended: after SetupSceneLights, whatever the lights were before, point
\* lights 1 to 3 and the spot light are inactive, and the directional light
\* and point light 0 are active.
C9_LightsAfterSetup ==
    AfterSetupSceneLights =>
        /\ \A i \in 1..3 : shader[PointLightActive(i)] = FALSE
        /\ shader[PointLightActive(0)] = TRUE
        /\ shader["spotLight.bActive"] = FALSE
        /\ shader["directionalLight.bActive"] = TRUE

\* SetupSceneLights has returned, with lighting on and point light 0 defined.
C9_Witness ==
    /\ AfterSetupSceneLights
    /\ shader["bUseLighting"] = TRUE
    /\ shader["pointLights[0].diffuse"] = Vec3(600, 500, 400)

-----------------------------------------------------------------------------
(* Claims about the meshes *)

\* C10 as stated: every Draw<Shape>Mesh call of RenderScene comes after the
\* Load<Shape>Mesh call of PrepareScene for the same shape.
C10_DrawnWereLoaded == meshDrawn \subseteq meshLoaded

\* C10, amended: every Draw<Shape>Mesh call of RenderScene other than
\* DrawHalfSphereMesh comes after PrepareScene's Load<Shape>Mesh call for the
\* same shape; DrawHalfSphereMesh comes after LoadSphereMesh, and no
\* LoadHalfSphereMesh call is made.
C10_DrawnWereLoadedButHalfSphere ==
    /\ (meshDrawn \ {"HalfSphere"}) \subseteq meshLoaded
    /\ "HalfSphere" \in meshDrawn => "Sphere" \in meshLoaded
    /\ "HalfSphere" \notin meshLoaded

\* RenderScene has drawn all its five shapes.
C10_Witness ==
    meshDrawn = {"Plane", "TaperedCylinder", "Cylinder", "Torus", "HalfSphere"}

-----------------------------------------------------------------------------
(* The surface-appearance calls made in any order around texture loads *)

\* Number of glGenTextures calls made while the appearance calls are driven.
MaxAppLoads == 3

AppTags == {TagNames[1], TagNames[2]}

\* The colours RenderScene passes at lines 589 and 639.
AppColors == {<<900, 900, 900, 1000>>, <<1000, 650, 0, 1000>>}

AppLoad ==
    \E image \in Images, tag \in AppTags :
        /\ ~aborted
        /\ glGenerated < MaxAppLoads
        /\ CreateGLTexture(image, tag)
        /\ UNCHANGED pc

AppTexture ==
    \E tag \in AppTags :
        /\ ~aborted
        /\ SetShaderTexture(tag)
        /\ UNCHANGED pc

AppColor ==
    \E c \in AppColors :
        /\ ~aborted
        /\ SetShaderColor(c[1], c[2], c[3], c[4])
        /\ UNCHANGED pc

AppUV ==
    /\ ~aborted
    /\ SetTextureUVScale(5000, 5000)
    /\ UNCHANGED pc

NextAppearance == AppLoad \/ AppTexture \/ AppColor \/ AppUV

SpecAppearance == Init /\ [][NextAppearance]_vars

-----------------------------------------------------------------------------
(* Claims about the surface-appearance mode *)

\* The shading stage is there: the calls have a ShaderManager to set.
ShadingStage == m_pShaderManager # "NULL"

C11_AfterCall ==
    ShadingStage =>
        /\ last.op = "SetShaderTexture" =>
               /\ shader["bUseTexture"] = 1
               /\ shader["objectTexture"] = LowestSlot(last.tag)
               /\ (loadLog # <<>> /\ last.tag = loadLog[1].tag)
                      => shader["objectTexture"] = 0
               /\ last.tag \notin LoadedTags => shader["objectTexture"] = -1
        /\ last.op = "SetShaderColor" => shader["bUseTexture"] = 0

C11_OtherStep ==
    last'.op \notin {"SetShaderTexture", "SetShaderColor"} =>
        /\ shader'["bUseTexture"] = shader["bUseTexture"]
        /\ shader'["objectTexture"] = shader["objectTexture"]

\* C11: with a shading stage attached, after SetShaderTexture(tag) the
\* texture-enable flag is 1 and the sampler index is the lowest slot holding
\* the tag (0 for the first texture loaded, -1 for a tag never loaded); after
\* SetShaderColor the flag is 0; and no other call changes the flag or the
\* sampler index, so both reflect the most recent of the two calls.
C11_AppearanceMode == [](C11_AfterCall) /\ [][C11_OtherStep]_vars

\* SetShaderTexture has switched the mode back from a flat colour to the
\* first of two loaded textures.
C11_Witness ==
    /\ ShadingStage
    /\ last.op = "SetShaderTexture"
    /\ m_loadedTextures >= 2
    /\ last.tag = loadLog[1].tag
    /\ shader["bUseTexture"] = 1
    /\ shader["objectTexture"] = 0
    /\ shader["objectColor"] \in AppColors

-----------------------------------------------------------------------------
(* SetTransformations called with whole-numbered scales and positions.  The
   matrix it sets depends on its arguments alone, so one call is followed. *)

\* The largest coordinate of a scale, a position or a point.
MaxCoord == 2

Coords == {1000 * k : k \in -1..MaxCoord}

CoordVecs == {Vec3(x, y, z) : x, y, z \in Coords}

ScaleVecs == {v \in CoordVecs : v[1] >= 0 /\ v[2] >= 0 /\ v[3] >= 0}

\* Rotations RenderScene passes: none, and 90 degrees about x.
ComposeRotations == {<<0, 0, 0>>, <<90000, 0, 0>>}

Compose ==
    \E scaleXYZ \in ScaleVecs, positionXYZ \in CoordVecs, r \in ComposeRotations :
        /\ ~aborted
        /\ last.op # "SetTransformations"
        /\ SetTransformations(scaleXYZ, r[1], r[2], r[3], positionXYZ)
        /\ UNCHANGED pc

NextCompose == Compose

SpecCompose == SceneManager("valid") /\ [][NextCompose]_vars

-----------------------------------------------------------------------------
(* Claims about the model matrix *)

ZeroRotations == last.args[2] = 0 /\ last.args[3] = 0 /\ last.args[4] = 0

\* C12: after SetTransformations(scale, 0, 0, 0, position) with whole-numbered
\* scale and position, the model uniform maps every point p to
\* (scale.x * p.x + position.x, scale.y * p.y + position.y,
\* scale.z * p.z + position.z); with scale (1,1,1) that is p + position and
\* with position (0,0,0) it is the scaling of each axis.
C12_ScaleThenTranslate ==
    (last.op = "SetTransformations" /\ ZeroRotations) =>
        LET scale == last.args[1]
            position == last.args[5] IN
        \A p \in CoordVecs :
            /\ Mat4Apply(shader["model"], p) =
                   Vec3(MulMilli(scale[1], p[1]) + position[1],
                        MulMilli(scale[2], p[2]) + position[2],
                        MulMilli(scale[3], p[3]) + position[3])
            /\ scale = Vec3(1000, 1000, 1000) =>
                   Mat4Apply(shader["model"], p) =
                       Vec3(p[1] + position[1], p[2] + position[2], p[3] + position[3])
            /\ position = Vec3(0, 0, 0) =>
                   Mat4Apply(shader["model"], p) =
                       Vec3(MulMilli(scale[1], p[1]), MulMilli(scale[2], p[2]),
                            MulMilli(scale[3], p[3]))

\* SetTransformations has been called with a scale of (2,2,2), no rotation and
\* a position of (2,1,-1), and the model uniform takes (1,1,1) to (4,3,1).
C12_Witness ==
    /\ last.op = "SetTransformations"
    /\ ZeroRotations
    /\ last.args[1] = Vec3(2000, 2000, 2000)
    /\ last.args[5] = Vec3(2000, 1000, -1000)
    /\ Mat4Apply(shader["model"], Vec3(1000, 1000, 1000)) = Vec3(4000, 3000, 1000)

-----------------------------------------------------------------------------
(* Claims about the binding of the textures *)

\* A step that is a call of CreateGLTexture, of BindGLTextures.
CreateGLTextureStep == pc' # pc /\ last'.op = "CreateGLTexture"

BindGLTexturesStep == bindCalls' # bindCalls

C13_Once ==
    /\ bindCalls <= 1
    /\ pc.fn \in {"frames", "RenderScene", "exit"} => bindCalls = 1
    /\ meshDrawn # {} => bindCalls = 1

C13_Step ==
    /\ CreateGLTextureStep => bindCalls = 0
    /\ BindGLTexturesStep =>
           /\ meshDrawn = {}
           /\ \A i \in Slots :
                  glBound'[i] = IF i < m_loadedTextures THEN m_textureIDs[i].ID ELSE glBound[i]
           /\ \A i \in 0..(m_loadedTextures - 1) : m_textureIDs[i].ID \in 1..glGenerated

\* C13: in a run of PrepareScene followed by RenderScene calls, BindGLTextures
\* is called exactly once (never twice, and once by the time PrepareScene has
\* returned and by the first draw), no CreateGLTexture call comes after it, no
\* draw comes before it, and the call binds the texture of each slot i below
\* m_loadedTextures to texture unit i and leaves every other unit as it was.
C13_BindOnceAfterLoads == [](C13_Once) /\ [][C13_Step]_vars

\* RenderScene has drawn with two textures loaded and each bound to the unit
\* of its slot, and with unit 2 bound to nothing.
C13_Witness ==
    /\ meshDrawn # {}
    /\ bindCalls = 1
    /\ m_loadedTextures = 2
    /\ glBound[0] = m_textureIDs[0].ID
    /\ glBound[1] = m_textureIDs[1].ID
    /\ glBound[2] = 0

=============================================================================
